---------------------------- MODULE Spec2Model ----------------------------
(***************************************************************************)
(* Rhythm timing and scoring engine of rhythm-app.                         *)
(*                                                                         *)
(*   - Scorer          src/lib/scoring.ts     (scoreSession,               *)
(*                                             countByAccuracy)            *)
(*   - Beat Scheduler  src/lib/metronome.ts   (startMetronome,             *)
(*                                             stopMetronome,              *)
(*                                             scheduleBeats, visualLoop)  *)
(*   - Note Scheduler  src/lib/noteScheduler.ts                            *)
(*   - Practice        src/hooks/usePractice.ts, useMetronome.ts,          *)
(*                     src/unnamed/part_006 (useTapCapture),               *)
(*                     src/lib/userProgress.ts (getDefaultBpm)             *)
(*                                                                         *)
(* All times are integers in milliseconds.  The source keeps times in      *)
(* seconds as IEEE doubles and multiplies by 1000 to obtain offsets; the   *)
(* model keeps the exact rational value, so offsetMs = tap - expected.     *)
(* JavaScript's null / undefined is modelled as the empty tuple and a      *)
(* present value v as <<v>>, so that both can be compared.                 *)
(***************************************************************************)
EXTENDS Integers, Sequences, FiniteSets, TLC

VARIABLES
    \* ---- Scorer (src/lib/scoring.ts) ----
    tapTimes,        \* scoreSession argument: tap times (ms)
    expectedTimes,   \* scoreSession argument: expected times (ms)
    thresholds,      \* scoreSession argument: ScoringThresholds
    results,         \* the HitResult[] returned by scoreSession
    matching,        \* the expectedToTap map scoreSession built (expected idx -> tap idx)
    counts,          \* the record returned by countByAccuracy(results)
    scorePc,         \* "input" -> "scored" -> "counted"
    \* ---- environment of the Beat Scheduler ----
    web,             \* isWeb(): window and window.AudioContext are defined
    ctxState,        \* "none" (audioContext = null) | "suspended" | "running"
    now,             \* ctx.currentTime (ms)
    intervals,       \* ids of the armed setInterval(scheduleBeats) timers
    rafs,            \* ids of the pending requestAnimationFrame(visualLoop) callbacks
    loading,         \* sounds whose loadMetronomeBuffers from setMetronomeSound is in flight
    calls,           \* the startMetronome invocations and where each stands
    \* ---- module state of src/lib/metronome.ts ----
    nextBeatTime, beatIndex, bpm, soundId, onBeat, schedulerIntervalId,
    visualLoopId, lastReportedBeat, isRunning, firstBeatTime, bufferCache,
    \* ---- what has been observed so far ----
    clicks,          \* the clicks handed to the audio engine, in order
    skipped,         \* the beats the catch-up loop passed over
    commands,        \* number of stop / setBpm / setSound calls made
    runId,           \* number of successful startMetronome calls
    \* ---- Note Scheduler (src/lib/noteScheduler.ts) ----
    t0,              \* argument startTime (ms)
    noteBpm,         \* argument bpm
    subdivision,     \* argument subdivision / rudiment.subdivision
    pattern,         \* argument pattern / rudiment.pattern
    cycleCount,      \* argument cycleCount
    noteCall,        \* "none", or the function whose result `times` holds
    times,           \* the number[] returned by that function (ms)
    cycleDuration,   \* the value returned by getCycleDurationSeconds (ms), or null
    \* ---- practice session (useMetronome, useTapCapture, usePractice) ----
    hookBpm,         \* useMetronome: the `bpm` state
    hookRunning,     \* useMetronome: the `running` state
    bpmInput,        \* usePractice: text of the BPM field
    phase,           \* usePractice: "idle" | "exercising" | "summary"
    countInBeatsSeen,\* usePractice: beats reported since the run began
    onBeatRef,       \* usePractice: onBeatRef.current, null or the count-in callback
    capturedTaps,    \* useTapCapture: the `taps` state, in order
    progressLoaded,  \* usePractice: the stored progress has been applied
    pendingRuns,     \* handleStartStop invocations waiting in `await metronome.start()`
    runClamped,      \* the tempo the latest run computed its expected times with
    clearsInRun,     \* clearTaps() calls since the latest run began
    registered,      \* number of registerTap calls made
    lastTap,         \* clock reading and hand of the latest registerTap call
    summaryResults   \* usePractice: null or the results finalized at stop

scoreVars == <<tapTimes, expectedTimes, thresholds, results, matching, counts, scorePc>>

metVars == <<web, ctxState, now, intervals, rafs, loading, calls,
             nextBeatTime, beatIndex, bpm, soundId, onBeat, schedulerIntervalId,
             visualLoopId, lastReportedBeat, isRunning, firstBeatTime, bufferCache,
             clicks, skipped, commands, runId>>

noteVars == <<t0, noteBpm, subdivision, pattern, cycleCount, noteCall, times,
              cycleDuration>>

pracVars == <<hookBpm, hookRunning, bpmInput, phase, countInBeatsSeen, onBeatRef,
              capturedTaps, progressLoaded, pendingRuns, runClamped, clearsInRun,
              registered, lastTap, summaryResults>>

vars == <<scoreVars, metVars, noteVars, pracVars>>

\* What the steps of one component leave alone.
notScoreVars == <<metVars, noteVars, pracVars>>
notMetVars == <<scoreVars, noteVars, pracVars>>
notNoteVars == <<scoreVars, metVars, pracVars>>
notPracVars == <<scoreVars, noteVars>>

----------------------------------------------------------------------------
(* Bounds of the model                                                     *)

MaxTaps == 2
MaxExpected == 3

\* Number of startMetronome invocations, and the last clock value (ms).
MaxStarts == 2
MaxNow == 800

\* Number of stopMetronome / setMetronomeBpm / setMetronomeSound calls.
MaxCommands == 2

\* Length of a rudiment pattern, and number of cycles asked for.
MaxPattern == 3
MaxCycles == 2

\* Practice session: number of registerTap calls, and of runs started
\* through handleStartStop in a browser.
MaxRegistered == 2
MaxRuns == 1

\* Live scoring: number of taps captured during the exercise.
MaxLiveTaps == 2

\* Tap and expected times the inputs are drawn from (ms).  They contain the
\* worked examples of the specification (expected 0/1000/2000 with taps
\* 40/2060; expected 0/50 with tap 40), pairs exactly on the 150 ms window
\* (0-150, 50-200), pairs outside it (0-200) and equidistant pairs (100
\* between 50 and 150).
TapDomain == {0, 40, 45, 100, 200, 2060}
ExpectedDomain == {0, 50, 150, 1000, 2000}

SeqsUpTo(S, n) == UNION {[1..k -> S] : k \in 0..n}

----------------------------------------------------------------------------
(* Scorer                                                                  *)

Null == <<>>
Some(v) == <<v>>

Abs(x) == IF x < 0 THEN -x ELSE x

DEFAULT_THRESHOLDS == [perfectThresholdMs |-> 50, goodThresholdMs |-> 100]

\* Thresholds the inputs are drawn from: the defaults, the tempo-relative
\* bands of 120 bpm (0.02 and 0.05 of a 500 ms beat), and a pair that breaks
\* the documented "good >= perfect" to exercise the order of the tests.
ThresholdDomain ==
    { DEFAULT_THRESHOLDS,
      [perfectThresholdMs |-> 10, goodThresholdMs |-> 25],
      [perfectThresholdMs |-> 60, goodThresholdMs |-> 20] }

ASSIGNMENT_WINDOW_MS == 150

\* Mutant of classifyOffset: the signed offset is compared, so every early
\* tap passes the "perfect" test.
classifyOffsetSigned(offsetMs, th) ==
    IF offsetMs <= th.perfectThresholdMs THEN "perfect"
    ELSE IF offsetMs <= th.goodThresholdMs THEN "good"
    ELSE "miss"

classifyOffset(offsetMs, th) ==
    LET abs == Abs(offsetMs) IN
    IF abs <= th.perfectThresholdMs THEN "perfect"
    ELSE IF abs <= th.goodThresholdMs THEN "good"
    ELSE "miss"

\* Mutant of InWindow: the distance in seconds is compared with the window in
\* milliseconds (distanceSec <= ASSIGNMENT_WINDOW_MS).
InWindowUnitMixup(tapTime, expectedTime) ==
    Abs(tapTime - expectedTime) <= ASSIGNMENT_WINDOW_MS * 1000

\* Whether a (tap, expected) pair is pushed onto `pairs` (scoring.ts:98-99).
InWindow(tapTime, expectedTime) ==
    Abs(tapTime - expectedTime) <= ASSIGNMENT_WINDOW_MS

\* The nested loops of scoring.ts:94-104: tap index outer, expected index
\* inner, only the pairs within the assignment window, in loop order.
\* Indices are 0-based as in the source.
BuildPairs(taps, exps) ==
    LET m == Len(exps)
        all == [k \in 1..(Len(taps) * m) |->
                  LET t == (k - 1) \div m
                      e == (k - 1) % m
                  IN [tapIdx |-> t, expectedIdx |-> e,
                      distanceMs |-> Abs(taps[t + 1] - exps[e + 1]),
                      inWindow |-> InWindow(taps[t + 1], exps[e + 1])]]
        kept == SelectSeq(all, LAMBDA p : p.inWindow)
    IN [k \in 1..Len(kept) |->
          [tapIdx |-> kept[k].tapIdx, expectedIdx |-> kept[k].expectedIdx,
           distanceMs |-> kept[k].distanceMs]]

\* Array.prototype.sort with (a, b) => a.distanceMs - b.distanceMs is a
\* stable sort: pairs of equal distance keep their loop order.
RECURSIVE InsertPair(_, _)
InsertPair(sorted, p) ==
    IF sorted = <<>> THEN <<p>>
    ELSE LET last == sorted[Len(sorted)] IN
         IF last.distanceMs <= p.distanceMs THEN Append(sorted, p)
         ELSE Append(InsertPair(SubSeq(sorted, 1, Len(sorted) - 1), p), last)

\* Mutant of SortPairs: the sort is left out, pairs stay in loop order.
SortPairsLoopOrder(pairs) == pairs

RECURSIVE SortPairs(_)
SortPairs(pairs) ==
    IF pairs = <<>> THEN <<>>
    ELSE InsertPair(SortPairs(SubSeq(pairs, 1, Len(pairs) - 1)), pairs[Len(pairs)])

\* Mutant of Claimed: only the expected index is tested, a tap can be reused.
ClaimedExpectedOnly(p, tapAssigned, expectedToTap) ==
    p.expectedIdx \in DOMAIN expectedToTap

\* Whether the greedy walk skips a pair (scoring.ts:112).
Claimed(p, tapAssigned, expectedToTap) ==
    p.tapIdx \in tapAssigned \/ p.expectedIdx \in DOMAIN expectedToTap

\* Mutant of GreedyAssign: the walk ends at the first claimed pair (break
\* instead of continue).
RECURSIVE GreedyAssignBreak(_, _, _, _)
GreedyAssignBreak(pairs, k, tapAssigned, expectedToTap) ==
    IF k > Len(pairs) THEN expectedToTap
    ELSE LET p == pairs[k] IN
         IF Claimed(p, tapAssigned, expectedToTap)
         THEN expectedToTap
         ELSE GreedyAssignBreak(pairs, k + 1, tapAssigned \cup {p.tapIdx},
                                (p.expectedIdx :> p.tapIdx) @@ expectedToTap)

\* The greedy walk of scoring.ts:111-115 from position k on.
RECURSIVE GreedyAssign(_, _, _, _)
GreedyAssign(pairs, k, tapAssigned, expectedToTap) ==
    IF k > Len(pairs) THEN expectedToTap
    ELSE LET p == pairs[k] IN
         IF Claimed(p, tapAssigned, expectedToTap)
         THEN GreedyAssign(pairs, k + 1, tapAssigned, expectedToTap)
         ELSE GreedyAssign(pairs, k + 1, tapAssigned \cup {p.tapIdx},
                           (p.expectedIdx :> p.tapIdx) @@ expectedToTap)

\* The Map expectedToTap after the walk.
ExpectedToTap(taps, exps) ==
    GreedyAssign(SortPairs(BuildPairs(taps, exps)), 1, {}, <<>>)

\* One HitResult (scoring.ts:119-145) for 0-based expected index i.
HitResultAt(i, taps, exps, th, expectedToTap) ==
    LET expectedTime == exps[i + 1]
        tapTime == IF i \in DOMAIN expectedToTap
                   THEN Some(taps[expectedToTap[i] + 1]) ELSE Null
    IN IF tapTime = Null
       THEN [index |-> i, expectedTime |-> expectedTime, tapTime |-> Null,
             offsetMs |-> Null, accuracy |-> "miss"]
       ELSE LET offsetMs == tapTime[1] - expectedTime IN
            [index |-> i, expectedTime |-> expectedTime, tapTime |-> tapTime,
             offsetMs |-> Some(offsetMs),
             accuracy |-> classifyOffset(offsetMs, th)]

\* Mutant of BuildResults: an expected note without a tap pushes nothing.
BuildResultsSkipUnmatched(taps, exps, th, expectedToTap) ==
    SelectSeq([k \in 1..Len(exps) |-> HitResultAt(k - 1, taps, exps, th, expectedToTap)],
              LAMBDA r : r.tapTime # Null)

\* The results loop of scoring.ts:117-147.
BuildResults(taps, exps, th, expectedToTap) ==
    [k \in 1..Len(exps) |-> HitResultAt(k - 1, taps, exps, th, expectedToTap)]

scoreSession(taps, exps, th) ==
    BuildResults(taps, exps, th, ExpectedToTap(taps, exps))

\* Mutant of CountLoop: results without a tap are not counted.
RECURSIVE CountLoopTappedOnly(_, _)
CountLoopTappedOnly(rs, k) ==
    IF k = 0 THEN [perfect |-> 0, good |-> 0, miss |-> 0]
    ELSE LET c == CountLoopTappedOnly(rs, k - 1) IN
         IF rs[k].tapTime = Null THEN c
         ELSE [c EXCEPT ![rs[k].accuracy] = @ + 1]

\* countByAccuracy: the loop counts[r.accuracy]++ over the first k results.
RECURSIVE CountLoop(_, _)
CountLoop(rs, k) ==
    IF k = 0 THEN [perfect |-> 0, good |-> 0, miss |-> 0]
    ELSE LET c == CountLoop(rs, k - 1) IN
         [c EXCEPT ![rs[k].accuracy] = @ + 1]

countByAccuracy(rs) == CountLoop(rs, Len(rs))

----------------------------------------------------------------------------
(* Beat Scheduler (src/lib/metronome.ts, the WAV-buffer module)            *)
(*                                                                         *)
(* beatDuration = 60 / bpm seconds is kept as 60000 \div bpm milliseconds; *)
(* the tempi of the model divide 60000, so the value is exact.  The        *)
(* comparison nextBeatTime < now - beatDuration * 0.5 is done on doubled   *)
(* values to stay in the integers.                                         *)

LOOKAHEAD_MS == 200

MIN_METRONOME_BPM == 20
MAX_METRONOME_BPM == 300

DEFAULT_METRONOME_SOUND == "perc_metronome_quartz"

SoundIds == {"perc_metronome_quartz", "perc_can"}

\* Arguments given to startMetronome / setMetronomeBpm: below the range, in
\* it, above it.
BpmArgs == {10, 120, 400}

\* Amount by which the audio clock is seen to advance between two events:
\* four refill periods.  A stall (backgrounded tab) is a run of such steps
\* with no timer firing in between.
AdvanceSteps == {200}

Calls == 1..MaxStarts

\* The number NaN (typeof NaN === "number").  No tempo or time of the model
\* is negative, so -1 is free to stand for it.
NaN == -1

\* a < b and a + b on numbers: a comparison with NaN is false, a sum with
\* NaN is NaN.
Less(a, b) == a # NaN /\ b # NaN /\ a < b
Plus(a, b) == IF a = NaN \/ b = NaN THEN NaN ELSE a + b

\* Math.max(lo, Math.min(hi, value)); Math.min and Math.max return NaN when
\* an argument is NaN.
Clamp(lo, hi, value) ==
    IF value = NaN THEN NaN
    ELSE LET m == IF value < hi THEN value ELSE hi
         IN IF m > lo THEN m ELSE lo

\* Math.max(20, Math.min(300, value))
ClampBpm(value) == Clamp(MIN_METRONOME_BPM, MAX_METRONOME_BPM, value)

\* 60 / bpm
BeatDurationMs(b) == IF b = NaN THEN NaN ELSE 60000 \div b

\* setInterval / requestAnimationFrame return an id no armed timer holds.
FreshId(used) == CHOOSE n \in 1..(Cardinality(used) + 1) : n \notin used

\* scheduleClick: hands one click to the audio engine unless the buffer pair
\* of the current sound is missing.
scheduleClick(cs, loaded, click) ==
    IF ~loaded THEN cs ELSE Append(cs, click)

\* Mutant of CatchUp: the catch-up loop is left out.
CatchUpNone(s, bd, t, run) == s

\* Mutant of CatchUp: a skipped beat advances the time but not the index.
RECURSIVE CatchUpIndexKept(_, _, _, _)
CatchUpIndexKept(s, bd, t, run) ==
    IF s.nbt # NaN /\ bd # NaN /\ 2 * s.nbt < 2 * t - bd
    THEN CatchUpIndexKept([s EXCEPT !.nbt = Plus(@, bd),
                                    !.skipped = @ \cup {[run |-> run, beat |-> s.bi,
                                                         when |-> s.nbt]}],
                          bd, t, run)
    ELSE s

\* The catch-up loop of scheduleBeats on s = [nbt, bi, clicks, skipped]:
\* advances time and index, emits nothing.
RECURSIVE CatchUp(_, _, _, _)
CatchUp(s, bd, t, run) ==
    IF s.nbt # NaN /\ bd # NaN /\ 2 * s.nbt < 2 * t - bd
    THEN CatchUp([s EXCEPT !.nbt = Plus(@, bd), !.bi = @ + 1,
                           !.skipped = @ \cup {[run |-> run, beat |-> s.bi,
                                                when |-> s.nbt]}],
                 bd, t, run)
    ELSE s

\* Mutant of Fill: beatIndex is not advanced after a click.
RECURSIVE FillIndexKept(_, _, _, _, _)
FillIndexKept(s, bd, t, run, loaded) ==
    IF Less(s.nbt, t + LOOKAHEAD_MS)
    THEN FillIndexKept([s EXCEPT !.nbt = Plus(@, bd),
                                 !.clicks = scheduleClick(@, loaded,
                                                [run |-> run, beat |-> s.bi, when |-> s.nbt,
                                                 accent |-> (s.bi % 4 = 0)])],
                       bd, t, run, loaded)
    ELSE s

\* The fill loop of scheduleBeats.
RECURSIVE Fill(_, _, _, _, _)
Fill(s, bd, t, run, loaded) ==
    IF Less(s.nbt, t + LOOKAHEAD_MS)
    THEN Fill([s EXCEPT !.nbt = Plus(@, bd), !.bi = @ + 1,
                        !.clicks = scheduleClick(@, loaded,
                                       [run |-> run, beat |-> s.bi, when |-> s.nbt,
                                        accent |-> (s.bi % 4 = 0)])],
              bd, t, run, loaded)
    ELSE s

\* Mutant of scheduleBeats: the pass does not test isRunning.
scheduleBeatsWhileStopped(running, b, loaded, t, run, s) ==
    IF ~loaded THEN s
    ELSE Fill(CatchUp(s, BeatDurationMs(b), t, run), BeatDurationMs(b), t, run, loaded)

\* scheduleBeats() run with the module state given as arguments; the result
\* is the record of what it may change.
scheduleBeats(running, b, loaded, t, run, s) ==
    IF ~running THEN s
    ELSE IF ~loaded THEN s
    ELSE Fill(CatchUp(s, BeatDurationMs(b), t, run), BeatDurationMs(b), t, run, loaded)

SchedState == [nbt |-> nextBeatTime, bi |-> beatIndex,
               clicks |-> clicks, skipped |-> skipped]

\* A startMetronome invocation that has not been made, and one that returned.
CallUnused == [pc |-> "unused", bpmArg |-> 0,
               loadId |-> DEFAULT_METRONOME_SOUND, cached |-> FALSE]
CallReturned(value) == [CallUnused EXCEPT !.pc = value]

\* State of the module when it is loaded (metronome.ts:233-246), in an
\* environment where isWeb() is w.
MetronomeLoaded(w) ==
    /\ web = w
    /\ ctxState = "none"
    /\ now = 0
    /\ nextBeatTime = 0
    /\ beatIndex = 0
    /\ bpm = 120
    /\ soundId = DEFAULT_METRONOME_SOUND
    /\ onBeat = Null
    /\ schedulerIntervalId = Null
    /\ visualLoopId = Null
    /\ lastReportedBeat = -1
    /\ isRunning = FALSE
    /\ firstBeatTime = 0
    /\ bufferCache = {}
    /\ intervals = {}
    /\ rafs = {}
    /\ loading = {}
    /\ calls = [c \in Calls |-> CallUnused]
    /\ clicks = <<>>
    /\ skipped = {}
    /\ commands = 0
    /\ runId = 0

\* getContext(): creates the AudioContext on first use; a new context starts
\* suspended or running, as the browser's autoplay policy decides.
ContextStatesOnGet == IF ctxState = "none" THEN {"suspended", "running"} ELSE {ctxState}

\* Mutant of StartFailed: bpm is assigned before the checks that return false.
StartFailedBpmAssigned(c, b) ==
    /\ calls' = [calls EXCEPT ![c] = CallReturned("false")]
    /\ bpm' = ClampBpm(b)
    /\ UNCHANGED <<nextBeatTime, beatIndex, soundId, onBeat, schedulerIntervalId,
                   visualLoopId, lastReportedBeat, isRunning, firstBeatTime,
                   intervals, rafs, loading, clicks, skipped, commands, runId>>

\* startMetronome returns false (metronome.ts:382, 384, 386, 389).
StartFailed(c, b) ==
    /\ calls' = [calls EXCEPT ![c] = CallReturned("false")]
    /\ UNCHANGED <<nextBeatTime, beatIndex, bpm, soundId, onBeat, schedulerIntervalId,
                   visualLoopId, lastReportedBeat, isRunning, firstBeatTime,
                   intervals, rafs, loading, clicks, skipped, commands, runId>>

\* startMetronome reaches `await ctx.resume()` (metronome.ts:385).
StartAwaitResume(c, b) ==
    /\ calls' = [calls EXCEPT ![c].pc = "awaitResume", ![c].bpmArg = b]
    /\ UNCHANGED <<nextBeatTime, beatIndex, bpm, soundId, onBeat, schedulerIntervalId,
                   visualLoopId, lastReportedBeat, isRunning, firstBeatTime,
                   intervals, rafs, loading, clicks, skipped, commands, runId>>

\* startMetronome reaches `await loadMetronomeBuffers(soundId)`: the cache is
\* looked up now, the download (if any) completes later.
StartAwaitLoad(c, b) ==
    /\ calls' = [calls EXCEPT ![c].pc = "awaitLoad", ![c].bpmArg = b,
                              ![c].loadId = soundId,
                              ![c].cached = (soundId \in bufferCache)]
    /\ UNCHANGED <<nextBeatTime, beatIndex, bpm, soundId, onBeat, schedulerIntervalId,
                   visualLoopId, lastReportedBeat, isRunning, firstBeatTime,
                   intervals, rafs, loading, clicks, skipped, commands, runId>>

\* startMetronome(b) up to its first await or return (metronome.ts:382-388).
StartMetronome(b) ==
    /\ UNCHANGED notMetVars
    /\ \E c \in Calls :
          /\ calls[c].pc = "unused"
          /\ \A d \in 1..(c - 1) : calls[d].pc # "unused"
          /\ UNCHANGED <<web, now, bufferCache>>
          /\ IF ~web
             THEN /\ StartFailed(c, b)
                  /\ UNCHANGED ctxState
             ELSE \E st \in ContextStatesOnGet :
                    /\ ctxState' = st
                    /\ IF st = "suspended"
                       THEN StartAwaitResume(c, b)
                       ELSE StartAwaitLoad(c, b)

\* `await ctx.resume()` settles: the context is running, or it stayed
\* suspended and startMetronome returns false (metronome.ts:385-388).
ResumeSettled(c) ==
    /\ calls[c].pc = "awaitResume"
    /\ UNCHANGED <<web, now, bufferCache>>
    /\ \E st \in (IF ctxState = "running" THEN {"running"} ELSE {"running", "suspended"}) :
          /\ ctxState' = st
          /\ IF st # "running" THEN StartFailed(c, calls[c].bpmArg)
             ELSE StartAwaitLoad(c, calls[c].bpmArg)

StartResumeDone(c) ==
    /\ UNCHANGED notMetVars
    /\ ResumeSettled(c)

\* `await loadMetronomeBuffers(soundId)` settles and startMetronome runs to
\* its end (metronome.ts:388-402).
LoadSettled(c, ok) ==
    /\ calls[c].pc = "awaitLoad"
    /\ calls[c].cached => ok
    /\ UNCHANGED <<web, now, ctxState>>
    /\ IF ~ok
       THEN /\ StartFailed(c, calls[c].bpmArg)
            /\ UNCHANGED bufferCache
       ELSE LET cache == bufferCache \cup {calls[c].loadId}
                b == ClampBpm(calls[c].bpmArg)
                s0 == [nbt |-> now, bi |-> 0, clicks |-> clicks, skipped |-> skipped]
                s1 == scheduleBeats(TRUE, b, soundId \in cache, now, runId + 1, s0)
                iid == FreshId(intervals)
                rid == FreshId(rafs)
            IN /\ bufferCache' = cache
               /\ bpm' = b
               /\ onBeat' = Some(c)
               /\ isRunning' = TRUE
               /\ firstBeatTime' = now
               /\ runId' = runId + 1
               /\ nextBeatTime' = s1.nbt
               /\ beatIndex' = s1.bi
               /\ clicks' = s1.clicks
               /\ skipped' = s1.skipped
               /\ schedulerIntervalId' = Some(iid)
               /\ intervals' = intervals \cup {iid}
               /\ visualLoopId' = Some(rid)
               /\ rafs' = rafs \cup {rid}
               /\ calls' = [calls EXCEPT ![c] = CallReturned("true")]
               /\ UNCHANGED <<soundId, lastReportedBeat, loading, commands>>

StartLoadDone(c, ok) ==
    /\ UNCHANGED notMetVars
    /\ LoadSettled(c, ok)

\* clearInterval(schedulerIntervalId) and cancelAnimationFrame(visualLoopId)
\* of stopMetronome (metronome.ts:407-414).
ClearTimers ==
    /\ IF schedulerIntervalId # Null
       THEN /\ intervals' = intervals \ {schedulerIntervalId[1]}
            /\ schedulerIntervalId' = Null
       ELSE UNCHANGED <<intervals, schedulerIntervalId>>
    /\ IF visualLoopId # Null
       THEN /\ rafs' = rafs \ {visualLoopId[1]}
            /\ visualLoopId' = Null
       ELSE UNCHANGED <<rafs, visualLoopId>>

StopSteps ==
    /\ commands < MaxCommands
    /\ commands' = commands + 1
    /\ isRunning' = FALSE
    /\ ClearTimers
    /\ onBeat' = Null
    /\ lastReportedBeat' = -1
    /\ UNCHANGED <<web, ctxState, now, nextBeatTime, beatIndex, bpm, soundId,
                   firstBeatTime, bufferCache, loading, calls, clicks, skipped,
                   runId>>

stopMetronome ==
    /\ UNCHANGED notMetVars
    /\ StopSteps

setMetronomeBpm(value) ==
    /\ UNCHANGED notMetVars
    /\ commands < MaxCommands
    /\ commands' = commands + 1
    /\ bpm' = ClampBpm(value)
    /\ UNCHANGED <<web, ctxState, now, nextBeatTime, beatIndex, soundId, onBeat,
                   schedulerIntervalId, visualLoopId, lastReportedBeat, isRunning,
                   firstBeatTime, bufferCache, intervals, rafs, loading, calls,
                   clicks, skipped, runId>>

\* setMetronomeSound(id): the load it starts is not awaited.
setMetronomeSound(id) ==
    /\ UNCHANGED notMetVars
    /\ commands < MaxCommands
    /\ commands' = commands + 1
    /\ soundId' = id
    /\ IF web
       THEN /\ \E st \in ContextStatesOnGet : ctxState' = st
            /\ loading' = IF id \in bufferCache THEN loading ELSE loading \cup {id}
       ELSE UNCHANGED <<ctxState, loading>>
    /\ UNCHANGED <<web, now, nextBeatTime, beatIndex, bpm, onBeat,
                   schedulerIntervalId, visualLoopId, lastReportedBeat, isRunning,
                   firstBeatTime, bufferCache, intervals, rafs, calls,
                   clicks, skipped, runId>>

\* A load started by setMetronomeSound settles: the pair is cached, or the
\* download or decoding failed and null is returned.
SoundLoadDone(id, ok) ==
    /\ UNCHANGED notMetVars
    /\ id \in loading
    /\ loading' = loading \ {id}
    /\ bufferCache' = IF ok THEN bufferCache \cup {id} ELSE bufferCache
    /\ UNCHANGED <<web, ctxState, now, nextBeatTime, beatIndex, bpm, soundId, onBeat,
                   schedulerIntervalId, visualLoopId, lastReportedBeat, isRunning,
                   firstBeatTime, intervals, rafs, calls, clicks, skipped,
                   commands, runId>>

\* The refill interval i fires: one scheduleBeats() pass.
IntervalFire(i) ==
    /\ UNCHANGED notMetVars
    /\ i \in intervals
    /\ LET s1 == scheduleBeats(isRunning, bpm, soundId \in bufferCache, now, runId,
                               SchedState)
       IN /\ nextBeatTime' = s1.nbt
          /\ beatIndex' = s1.bi
          /\ clicks' = s1.clicks
          /\ skipped' = s1.skipped
    /\ UNCHANGED <<web, ctxState, now, bpm, soundId, onBeat, schedulerIntervalId,
                   visualLoopId, lastReportedBeat, isRunning, firstBeatTime,
                   bufferCache, intervals, rafs, loading, calls, commands, runId>>

\* Mutant of visualLoop: a reported beat also advances beatIndex.
visualLoopAdvancing(r) ==
    /\ r \in rafs
    /\ IF ~isRunning \/ onBeat = Null
       THEN /\ visualLoopId' = Null
            /\ rafs' = rafs \ {r}
            /\ UNCHANGED <<lastReportedBeat, beatIndex>>
       ELSE LET currentBeatInBar == (beatIndex - 1) % 4
                rid == FreshId(rafs \ {r})
                reported == beatIndex > 0 /\ currentBeatInBar # lastReportedBeat
            IN /\ lastReportedBeat' =
                     IF reported THEN currentBeatInBar ELSE lastReportedBeat
               /\ beatIndex' = IF reported THEN beatIndex + 1 ELSE beatIndex
               /\ visualLoopId' = Some(rid)
               /\ rafs' = (rafs \ {r}) \cup {rid}
    /\ UNCHANGED <<web, ctxState, now, nextBeatTime, bpm, soundId, onBeat,
                   schedulerIntervalId, isRunning, firstBeatTime, bufferCache,
                   intervals, loading, calls, clicks, skipped, commands, runId>>

\* visualLoop() run as the callback of animation frame r.
visualLoop(r) ==
    /\ r \in rafs
    /\ IF ~isRunning \/ onBeat = Null
       THEN /\ visualLoopId' = Null
            /\ rafs' = rafs \ {r}
            /\ UNCHANGED lastReportedBeat
       ELSE LET currentBeatInBar == (beatIndex - 1) % 4
                rid == FreshId(rafs \ {r})
            IN /\ lastReportedBeat' =
                     IF beatIndex > 0 /\ currentBeatInBar # lastReportedBeat
                     THEN currentBeatInBar ELSE lastReportedBeat
               /\ visualLoopId' = Some(rid)
               /\ rafs' = (rafs \ {r}) \cup {rid}
    /\ UNCHANGED <<web, ctxState, now, nextBeatTime, beatIndex, bpm, soundId, onBeat,
                   schedulerIntervalId, isRunning, firstBeatTime, bufferCache,
                   intervals, loading, calls, clicks, skipped, commands, runId>>

\* The animation frame r fires.
VisualFrame(r) ==
    /\ UNCHANGED notMetVars
    /\ visualLoop(r)

\* ctx.currentTime advances while the context is running.
Advance(d) ==
    /\ UNCHANGED notMetVars
    /\ ctxState = "running"
    /\ now + d <= MaxNow
    /\ now' = now + d
    /\ UNCHANGED <<web, ctxState, nextBeatTime, beatIndex, bpm, soundId, onBeat,
                   schedulerIntervalId, visualLoopId, lastReportedBeat, isRunning,
                   firstBeatTime, bufferCache, intervals, rafs, loading, calls,
                   clicks, skipped, commands, runId>>

Next ==
    \/ \E b \in BpmArgs : StartMetronome(b)
    \/ \E c \in Calls : StartResumeDone(c)
    \/ \E c \in Calls : \E ok \in BOOLEAN : StartLoadDone(c, ok)
    \/ stopMetronome
    \/ \E b \in BpmArgs : setMetronomeBpm(b)
    \/ \E id \in SoundIds : setMetronomeSound(id)
    \/ \E id \in SoundIds : \E ok \in BOOLEAN : SoundLoadDone(id, ok)
    \/ \E i \in intervals : IntervalFire(i)
    \/ \E r \in rafs : VisualFrame(r)
    \/ \E d \in AdvanceSteps : Advance(d)

----------------------------------------------------------------------------
(* Note Scheduler (src/lib/noteScheduler.ts)                               *)
(*                                                                         *)
(* Times are integers in milliseconds.  The tempi of the model divide      *)
(* 5000, so that 60000 / bpm / notesPerBeat is an integer for every        *)
(* subdivision (1, 2, 3 or 4 notes per beat) and the arithmetic is exact.  *)

NOTES_PER_BEAT == [quarter |-> 1, eighth |-> 2, sixteenth |-> 4, eighthTriplet |-> 3]

Subdivisions == DOMAIN NOTES_PER_BEAT

\* Tempi, start times and pattern cells the inputs are drawn from.  "null"
\* stands for a null / undefined cell, "X" for an unrecognized value.
NoteBpms == {40, 100, 200}
StartTimes == {0, 1300}
Cells == {"L", "R", "", "null", "X"}

\* stepSeconds: (60 / bpm) / notesPerBeat.
stepSeconds(b, sub) == (60000 \div b) \div NOTES_PER_BEAT[sub]

\* Mutant of getCycleDurationSeconds: one step short (the span from the first
\* to the last note).
getCycleDurationShort(b, sub, patternLength) ==
    (patternLength - 1) * stepSeconds(b, sub)

getCycleDurationSeconds(b, sub, patternLength) ==
    patternLength * stepSeconds(b, sub)

\* The loop of getExpectedHitTimes from index i (0-based) on.
RECURSIVE HitTimesLoop(_, _, _, _, _)
HitTimesLoop(startTime, step, patternLength, i, acc) ==
    IF i < patternLength
    THEN HitTimesLoop(startTime, step, patternLength, i + 1,
                      Append(acc, startTime + i * step))
    ELSE acc

getExpectedHitTimes(startTime, b, sub, patternLength) ==
    HitTimesLoop(startTime, stepSeconds(b, sub), patternLength, 0, <<>>)

\* cell === "L" || cell === "R"
IsNoteCell(cell) == cell = "L" \/ cell = "R"

\* Mutant of FromPatternLoop: the time is taken from the number of notes
\* pushed so far, so a rest shifts the notes after it.
RECURSIVE FromPatternLoopCompacting(_, _, _, _, _)
FromPatternLoopCompacting(startTime, step, pat, i, acc) ==
    IF i < Len(pat)
    THEN FromPatternLoopCompacting(startTime, step, pat, i + 1,
             IF IsNoteCell(pat[i + 1])
             THEN Append(acc, startTime + Len(acc) * step)
             ELSE acc)
    ELSE acc

\* The loop of getExpectedHitTimesFromPattern from index i (0-based) on.
RECURSIVE FromPatternLoop(_, _, _, _, _)
FromPatternLoop(startTime, step, pat, i, acc) ==
    IF i < Len(pat)
    THEN FromPatternLoop(startTime, step, pat, i + 1,
             IF IsNoteCell(pat[i + 1])
             THEN Append(acc, startTime + i * step)
             ELSE acc)
    ELSE acc

getExpectedHitTimesFromPattern(startTime, b, sub, pat) ==
    FromPatternLoop(startTime, stepSeconds(b, sub), pat, 0, <<>>)

\* Mutant of hasRests: a null cell is not seen as a rest (c === "" only).
hasRestsEmptyOnly(pat) == \E i \in 1..Len(pat) : pat[i] = ""

\* pattern.some((c) => c === "" || c == null)
hasRests(pat) == \E i \in 1..Len(pat) : pat[i] = "" \/ pat[i] = "null"

getExpectedHitTimesForRudiment(startTime, b, sub, pat) ==
    IF hasRests(pat)
    THEN getExpectedHitTimesFromPattern(startTime, b, sub, pat)
    ELSE getExpectedHitTimes(startTime, b, sub, Len(pat))

\* Mutant of CyclesLoop: the times of a cycle are put in front of the output
\* (unshift) instead of behind it.
RECURSIVE CyclesLoopUnshift(_, _, _, _, _, _, _)
CyclesLoopUnshift(startTime, b, sub, pat, count, c, out) ==
    IF c < count
    THEN CyclesLoopUnshift(startTime, b, sub, pat, count, c + 1,
             getExpectedHitTimesForRudiment(
                 startTime + c * getCycleDurationSeconds(b, sub, Len(pat)),
                 b, sub, pat) \o out)
    ELSE out

\* The loop of getExpectedHitTimesForRudimentCycles from cycle c on.
RECURSIVE CyclesLoop(_, _, _, _, _, _, _)
CyclesLoop(startTime, b, sub, pat, count, c, out) ==
    IF c < count
    THEN CyclesLoop(startTime, b, sub, pat, count, c + 1,
             out \o getExpectedHitTimesForRudiment(
                        startTime + c * getCycleDurationSeconds(b, sub, Len(pat)),
                        b, sub, pat))
    ELSE out

getExpectedHitTimesForRudimentCycles(startTime, b, sub, pat, count) ==
    CyclesLoop(startTime, b, sub, pat, count, 0, <<>>)

\* The Note Scheduler before any call.
NotesIdle ==
    /\ t0 = 0
    /\ noteBpm = 100
    /\ subdivision = "quarter"
    /\ pattern = <<>>
    /\ cycleCount = 0
    /\ noteCall = "none"
    /\ times = <<>>
    /\ cycleDuration = Null

----------------------------------------------------------------------------
(* Practice session: useMetronome (src/hooks/useMetronome.ts),             *)
(* useTapCapture (src/unnamed/part_006), usePractice                       *)
(* (src/hooks/usePractice.ts) and getDefaultBpm (src/lib/userProgress.ts). *)
(*                                                                         *)
(* A text is a sequence of one-character strings.  A React state update    *)
(* made by a handler is applied when the handler's step ends; inside the   *)
(* handler the callbacks still see the values of the last render.          *)

HOOK_MIN_BPM == 20
HOOK_MAX_BPM == 300
PRACTICE_MIN_BPM == 40
PRACTICE_MAX_BPM == 240
COUNT_IN_BEATS == 4
DEFAULT_BPM == 120

DigitChars == <<"0", "1", "2", "3", "4", "5", "6", "7", "8", "9">>

IsDigit(ch) == \E d \in 1..10 : DigitChars[d] = ch

DigitValue(ch) == (CHOOSE d \in 1..10 : DigitChars[d] = ch) - 1

\* parseInt(text, 10) on a text without sign or leading blanks: the value of
\* the longest prefix of digits, NaN when that prefix is empty.
RECURSIVE ParseDigits(_, _, _)
ParseDigits(text, i, acc) ==
    IF i <= Len(text) /\ IsDigit(text[i])
    THEN ParseDigits(text, i + 1, acc * 10 + DigitValue(text[i]))
    ELSE acc

ParseInt(text) ==
    IF Len(text) = 0 \/ ~IsDigit(text[1]) THEN NaN ELSE ParseDigits(text, 1, 0)

\* String(n) for NaN and for a non-negative integer.
RECURSIVE DecimalDigits(_)
DecimalDigits(n) ==
    IF n < 10 THEN <<DigitChars[n + 1]>>
    ELSE Append(DecimalDigits(n \div 10), DigitChars[(n % 10) + 1])

ToText(n) == IF n = NaN THEN <<"N", "a", "N">> ELSE DecimalDigits(n)

\* What the user types in the BPM field, the initialBpm option (when given,
\* the screen has passed it through Number.isFinite), and the stored progress
\* document: absent, without a numeric lastBpm, or with one.
TypedTexts == {<<>>, <<"3", "0">>, <<"5", "0", "0">>}
InitialBpms == {Null, Some(30)}
StoredProgress == {[exists |-> FALSE, lastBpm |-> Null],
                   [exists |-> TRUE, lastBpm |-> Null],
                   [exists |-> TRUE, lastBpm |-> Some(NaN)],
                   [exists |-> TRUE, lastBpm |-> Some(500)]}
Hands == {"L", "R"}

\* getDefaultBpm(progress)
getDefaultBpm(progress) ==
    IF ~progress.exists \/ progress.lastBpm = Null THEN DEFAULT_BPM
    ELSE Clamp(PRACTICE_MIN_BPM, PRACTICE_MAX_BPM, progress.lastBpm[1])

\* Math.max(MIN_BPM, Math.min(MAX_BPM, value)) of useMetronome.
HookClamp(value) == Clamp(HOOK_MIN_BPM, HOOK_MAX_BPM, value)

\* const clamped = isNaN(value) ? 120 : Math.min(MAX_BPM, Math.max(MIN_BPM, value))
ClampedInput(text) ==
    IF ParseInt(text) = NaN THEN 120
    ELSE Clamp(PRACTICE_MIN_BPM, PRACTICE_MAX_BPM, ParseInt(text))

\* Mutant of AppendTap: a tap at the time of a captured one is dropped.
AppendTapDebounced(ts, tap) ==
    IF \E i \in 1..Len(ts) : ts[i].time = tap.time THEN ts ELSE Append(ts, tap)

\* [...prev, { time, hand }]
AppendTap(ts, tap) == Append(ts, tap)

\* The hooks as mounted by usePractice(user, {initialBpm}).
PracticeMounted(initialBpm) ==
    LET defaultBpm == IF initialBpm # Null
                      THEN Clamp(PRACTICE_MIN_BPM, PRACTICE_MAX_BPM, initialBpm[1])
                      ELSE 120
    IN /\ hookBpm = HookClamp(defaultBpm)
       /\ hookRunning = FALSE
       /\ bpmInput = ToText(defaultBpm)
       /\ phase = "idle"
       /\ countInBeatsSeen = 0
       /\ onBeatRef = Null
       /\ capturedTaps = <<>>
       /\ progressLoaded = (initialBpm # Null)
       /\ pendingRuns = [c \in Calls |-> Null]
       /\ runClamped = Null
       /\ clearsInRun = 0
       /\ registered = 0
       /\ lastTap = Null
       /\ summaryResults = Null

PracticeIdle == PracticeMounted(Null)

\* The module variables no practice handler assigns directly.
metKept == <<now, web, soundId, bufferCache, loading>>

\* The progress effect of usePractice: getUserProgress(user) resolves with
\* the document p (usePractice.ts:394-407).
ProgressLoaded(p) ==
    /\ UNCHANGED notPracVars
    /\ ~progressLoaded
    /\ LET b == getDefaultBpm(p)
       IN /\ hookBpm' = HookClamp(b)
          /\ bpm' = ClampBpm(HookClamp(b))
          /\ bpmInput' = ToText(b)
    /\ progressLoaded' = TRUE
    /\ UNCHANGED <<hookRunning, phase, countInBeatsSeen, onBeatRef, capturedTaps,
                   pendingRuns, runClamped, clearsInRun, registered, lastTap,
                   summaryResults>>
    /\ UNCHANGED <<metKept, ctxState, intervals, rafs, calls, nextBeatTime,
                   beatIndex, onBeat, schedulerIntervalId, visualLoopId,
                   lastReportedBeat, isRunning, firstBeatTime, clicks, skipped,
                   commands, runId>>

\* handleBpmChange(text) (usePractice.ts:724-733).
handleBpmChange(text) ==
    /\ UNCHANGED notPracVars
    /\ commands < MaxCommands
    /\ commands' = commands + 1
    /\ bpmInput' = text
    /\ IF ParseInt(text) # NaN
       THEN LET v == Clamp(PRACTICE_MIN_BPM, PRACTICE_MAX_BPM, ParseInt(text))
            IN /\ hookBpm' = HookClamp(v)
               /\ bpm' = ClampBpm(HookClamp(v))
       ELSE UNCHANGED <<hookBpm, bpm>>
    /\ UNCHANGED <<hookRunning, phase, countInBeatsSeen, onBeatRef, capturedTaps,
                   progressLoaded, pendingRuns, runClamped, clearsInRun,
                   registered, lastTap,
                   summaryResults>>
    /\ UNCHANGED <<metKept, ctxState, intervals, rafs, calls, nextBeatTime,
                   beatIndex, onBeat, schedulerIntervalId, visualLoopId,
                   lastReportedBeat, isRunning, firstBeatTime, clicks, skipped,
                   runId>>

\* handleStartStop() while metronome.running: metronome.stop() and the reset
\* of the session state (usePractice.ts:605-618).
HandleStop ==
    /\ hookRunning
    /\ StopSteps
    /\ hookRunning' = FALSE
    /\ phase' = "idle"
    /\ countInBeatsSeen' = 0
    /\ summaryResults' = Null
    /\ UNCHANGED <<hookBpm, bpmInput, onBeatRef, capturedTaps, progressLoaded, pendingRuns,
                   runClamped, clearsInRun, registered, lastTap>>

\* The end of handleStartStop(), after `await metronome.start()`
\* (usePractice.ts:646-674), for the invocation that computed `clamped`.
RunPrepared(clamped) ==
    /\ runClamped' = Some(clamped)
    /\ phase' = "exercising"

\* handleStartStop() while not running, up to the first await or return of
\* startMetronome (usePractice.ts:619-645, useMetronome.ts:58-64,
\* metronome.ts:382-388).  start() clamps the bpm of the last render.
HandleStart ==
    /\ ~hookRunning
    /\ LET clamped == ClampedInput(bpmInput)
           startBpm == HookClamp(hookBpm)
       IN /\ hookBpm' = HookClamp(clamped)
          /\ bpmInput' = ToText(clamped)
          /\ capturedTaps' = <<>>
          /\ clearsInRun' = 1
          /\ countInBeatsSeen' = 0
          /\ onBeatRef' = Some("countIn")
          /\ summaryResults' = Null
          /\ UNCHANGED <<hookRunning, progressLoaded, registered, lastTap>>
          /\ UNCHANGED <<metKept, intervals, rafs, nextBeatTime, beatIndex, onBeat,
                         schedulerIntervalId, visualLoopId, lastReportedBeat,
                         isRunning, firstBeatTime, clicks, skipped, commands, runId>>
          /\ IF ~web
             THEN /\ bpm' = ClampBpm(HookClamp(clamped))
                  /\ RunPrepared(clamped)
                  /\ UNCHANGED <<ctxState, calls, pendingRuns>>
             ELSE /\ bpm' = ClampBpm(startBpm)
                  /\ UNCHANGED <<phase, runClamped>>
                  /\ \E c \in Calls :
                        /\ c <= MaxRuns
                        /\ calls[c].pc = "unused"
                        /\ \A d \in 1..(c - 1) : calls[d].pc # "unused"
                        /\ pendingRuns' = [pendingRuns EXCEPT ![c] = Some(clamped)]
                        /\ \E st \in ContextStatesOnGet :
                              /\ ctxState' = st
                              /\ calls' = IF st = "suspended"
                                          THEN [calls EXCEPT ![c].pc = "awaitResume",
                                                             ![c].bpmArg = startBpm]
                                          ELSE [calls EXCEPT ![c].pc = "awaitLoad",
                                                             ![c].bpmArg = startBpm,
                                                             ![c].loadId = soundId,
                                                             ![c].cached = (soundId \in bufferCache)]

\* handleStartStop() (usePractice.ts:604-675).
handleStartStop ==
    /\ UNCHANGED notPracVars
    /\ \/ HandleStop
       \/ HandleStart

\* getThresholdsForBpm(bpm): 0.02 and 0.05 of a beat, in ms.
getThresholdsForBpm(b) ==
    [perfectThresholdMs |-> (2 * (60000 \div b)) \div 100,
     goodThresholdMs |-> (5 * (60000 \div b)) \div 100]

\* notesPerCycleRef.current of a run on the rudiment (subdivision, pattern)
\* whose exercise starts at t0 (usePractice.ts:659-664).
notesPerCycle == Len(getExpectedHitTimesForRudiment(t0, noteBpm, subdivision, pattern))

\* tapCapture.taps.map((t) => t.time)
TapTimesOf(ts) == [k \in 1..Len(ts) |-> ts[k].time]

\* Math.ceil(n / k) for k > 0.
Ceil(n, k) == (n + k - 1) \div k

\* cyclesPlayed of handleStopForSummary (usePractice.ts:683).
cyclesPlayed(ts) == Ceil(Len(ts), notesPerCycle)

\* The expected times handleStopForSummary scores against
\* (usePractice.ts:684-689).
expectedAll(ts) ==
    LET played == cyclesPlayed(ts)
    IN getExpectedHitTimesForRudimentCycles(t0, hookBpm, subdivision, pattern,
                                            IF played > 1 THEN played ELSE 1)

\* The results handleStopForSummary finalizes (usePractice.ts:679-692).
FinalResults(ts) ==
    IF notesPerCycle > 0
    THEN scoreSession(TapTimesOf(ts), expectedAll(ts), getThresholdsForBpm(hookBpm))
    ELSE <<>>

\* handleStopForSummary() (usePractice.ts:677-712).
handleStopForSummary ==
    /\ UNCHANGED notPracVars
    /\ hookRunning
    /\ summaryResults' = Some(FinalResults(capturedTaps))
    /\ phase' = "summary"
    /\ StopSteps
    /\ hookRunning' = FALSE
    /\ UNCHANGED <<hookBpm, bpmInput, countInBeatsSeen, onBeatRef, capturedTaps,
                   progressLoaded, pendingRuns, runClamped, clearsInRun, registered,
                   lastTap>>

\* dismissSummary() (usePractice.ts:714-724), offered while the summary is
\* shown.
dismissSummary ==
    /\ UNCHANGED notPracVars
    /\ phase = "summary"
    /\ phase' = "idle"
    /\ summaryResults' = Null
    /\ countInBeatsSeen' = 0
    /\ UNCHANGED <<hookBpm, hookRunning, bpmInput, onBeatRef, capturedTaps,
                   progressLoaded, pendingRuns, runClamped, clearsInRun, registered,
                   lastTap>>
    /\ UNCHANGED metVars

\* startMetronome's call c has returned `started`: start() sets the running
\* state and handleStartStop() runs to its end.
StartReturned(c, started) ==
    /\ hookRunning' = started
    /\ RunPrepared(pendingRuns[c][1])
    /\ pendingRuns' = [pendingRuns EXCEPT ![c] = Null]

\* `await ctx.resume()` of the start made by handleStartStop settles.
PracticeResumeDone(c) ==
    /\ UNCHANGED notPracVars
    /\ pendingRuns[c] # Null
    /\ ResumeSettled(c)
    /\ IF calls'[c].pc = "false"
       THEN StartReturned(c, FALSE)
       ELSE UNCHANGED <<hookRunning, phase, runClamped, pendingRuns>>
    /\ UNCHANGED <<hookBpm, bpmInput, countInBeatsSeen, onBeatRef, capturedTaps,
                   progressLoaded, clearsInRun, registered, lastTap,
                   summaryResults>>

\* `await loadMetronomeBuffers(soundId)` of that start settles.
PracticeLoadDone(c, ok) ==
    /\ UNCHANGED notPracVars
    /\ pendingRuns[c] # Null
    /\ LoadSettled(c, ok)
    /\ StartReturned(c, ok)
    /\ UNCHANGED <<hookBpm, bpmInput, countInBeatsSeen, onBeatRef, capturedTaps,
                   progressLoaded, clearsInRun, registered, lastTap,
                   summaryResults>>

\* registerTap(hand) (part_006:27-37); getAudioContextTime() creates the
\* AudioContext when there is none and reads its clock, 0 without a window.
registerTap(hand) ==
    /\ UNCHANGED notPracVars
    /\ registered < MaxRegistered
    /\ registered' = registered + 1
    /\ IF web THEN \E st \in ContextStatesOnGet : ctxState' = st
       ELSE UNCHANGED ctxState
    /\ LET time == IF web THEN now ELSE 0
       IN /\ lastTap' = Some([clock |-> time, hand |-> hand])
          /\ capturedTaps' = IF time <= 0 THEN capturedTaps
                     ELSE AppendTap(capturedTaps, [time |-> time, hand |-> hand])
    /\ UNCHANGED <<hookBpm, hookRunning, bpmInput, phase, countInBeatsSeen,
                   onBeatRef, progressLoaded, pendingRuns, runClamped, clearsInRun,
                   summaryResults>>
    /\ UNCHANGED <<metKept, intervals, rafs, calls, nextBeatTime, beatIndex, bpm,
                   onBeat, schedulerIntervalId, visualLoopId, lastReportedBeat,
                   isRunning, firstBeatTime, clicks, skipped, commands, runId>>

\* The callback handleStartStop() stored in onBeatRef (usePractice.ts:632-642).
CountInBeat ==
    IF onBeatRef = Null
    THEN UNCHANGED <<countInBeatsSeen, capturedTaps, clearsInRun, onBeatRef>>
    ELSE /\ countInBeatsSeen' = countInBeatsSeen + 1
         /\ IF countInBeatsSeen + 1 >= COUNT_IN_BEATS
            THEN /\ capturedTaps' = <<>>
                 /\ clearsInRun' = clearsInRun + 1
                 /\ onBeatRef' = Null
            ELSE UNCHANGED <<capturedTaps, clearsInRun, onBeatRef>>

\* The animation frame r fires: visualLoop(), and for a beat it reports the
\* callback start() gave to startMetronome (useMetronome.ts:62-65), which
\* calls onBeatRef.current (usePractice.ts:385-389).
PracticeFrame(r) ==
    /\ UNCHANGED notPracVars
    /\ visualLoop(r)
    /\ IF lastReportedBeat' # lastReportedBeat
       THEN CountInBeat
       ELSE UNCHANGED <<countInBeatsSeen, capturedTaps, clearsInRun, onBeatRef>>
    /\ UNCHANGED <<hookBpm, hookRunning, bpmInput, phase, progressLoaded,
                   pendingRuns, runClamped, registered, lastTap,
                   summaryResults>>

----------------------------------------------------------------------------
(* Live scoring of usePractice (src/hooks/usePractice.ts:452-602, second   *)
(* copy of the file): the scoring effect re-run on every change of the     *)
(* taps, and the results handleStopForSummary finalizes.  The note         *)
(* scheduler's variables hold the run: t0 is exerciseStartTimeRef,         *)
(* (subdivision, pattern) the rudiment, cycleDuration cycleDurationRef;    *)
(* the scorer's variables hold the latest scoreSession call of the effect, *)
(* results being liveResults.  The cycle on display is the first one.      *)

\* Tempi, rudiments and hands of the runs modelled.
LiveBpms == {40, 100, 200}
LiveSubdivisions == {"sixteenth", "eighthTriplet"}
LivePatterns == {<<"L", "R", "L">>, <<"R", "", "L">>}
LiveHands == {"R"}

\* MISS_WINDOW_RATIO * beatMs, in ms.
missWindowMs(b) == (5 * (60000 \div b)) \div 100

\* The clock is read on a grid of one miss window (5% of a beat).
LiveTick == missWindowMs(hookBpm)

cycleStart == t0
cycleEnd == cycleStart + cycleDuration[1]

\* Array.prototype.sort with (a, b) => a.time - b.time (stable).
RECURSIVE InsertTime(_, _)
InsertTime(sorted, x) ==
    IF sorted = <<>> THEN <<x>>
    ELSE LET last == sorted[Len(sorted)] IN
         IF last <= x THEN Append(sorted, x)
         ELSE Append(InsertTime(SubSeq(sorted, 1, Len(sorted) - 1), x), last)

RECURSIVE SortTimes(_)
SortTimes(ts) ==
    IF ts = <<>> THEN <<>>
    ELSE InsertTime(SortTimes(SubSeq(ts, 1, Len(ts) - 1)), ts[Len(ts)])

\* tapsInCycle: the taps of the cycle and of the assignment window around it,
\* sorted by time.
tapsInCycle(ts) ==
    SortTimes(SelectSeq(TapTimesOf(ts),
                        LAMBDA x : /\ x >= cycleStart - ASSIGNMENT_WINDOW_MS
                                   /\ x < cycleEnd + ASSIGNMENT_WINDOW_MS))

expectedTimesThisCycle ==
    getExpectedHitTimesForRudiment(cycleStart, hookBpm, subdivision, pattern)

\* Mutant of LiveThresholds: the default thresholds (100 ms for "good") are
\* used at every tempo.
LiveThresholdsDefault == DEFAULT_THRESHOLDS

\* The thresholds of the effect: tempo-relative.
LiveThresholds == getThresholdsForBpm(hookBpm)

\* The scoring effect on the taps ts: scoreSession on the current cycle and
\* setLiveResults.
LiveScored(ts) ==
    /\ tapTimes' = tapsInCycle(ts)
    /\ expectedTimes' = expectedTimesThisCycle
    /\ thresholds' = LiveThresholds
    /\ results' = scoreSession(tapsInCycle(ts), expectedTimesThisCycle, LiveThresholds)
    /\ matching' = ExpectedToTap(tapsInCycle(ts), expectedTimesThisCycle)
    /\ UNCHANGED <<counts, scorePc>>

\* The beat scheduler t ms after a start at clock 0 with tempo b whose refill
\* passes all ran in time.
LiveMetronome(b, t) ==
    LET s == Fill([nbt |-> 0, bi |-> 0, clicks |-> <<>>, skipped |-> {}],
                  BeatDurationMs(b), t, 1, TRUE)
    IN /\ web = TRUE
       /\ ctxState = "running"
       /\ now = t
       /\ nextBeatTime = s.nbt
       /\ beatIndex = s.bi
       /\ bpm = b
       /\ soundId = DEFAULT_METRONOME_SOUND
       /\ onBeat = Some(1)
       /\ schedulerIntervalId = Some(1)
       /\ visualLoopId = Some(1)
       /\ lastReportedBeat = (s.bi - 1) % 4
       /\ isRunning = TRUE
       /\ firstBeatTime = 0
       /\ bufferCache = {DEFAULT_METRONOME_SOUND}
       /\ intervals = {1}
       /\ rafs = {1}
       /\ loading = {}
       /\ calls = [c \in Calls |-> IF c = 1 THEN CallReturned("true") ELSE CallUnused]
       /\ clicks = s.clicks
       /\ skipped = {}
       /\ commands = 0
       /\ runId = 1

\* usePractice after handleStartStop() started a run at tempo b and the
\* count-in was reported.
LivePractice(b) ==
    /\ hookBpm = b
    /\ hookRunning = TRUE
    /\ bpmInput = ToText(b)
    /\ phase = "exercising"
    /\ countInBeatsSeen = COUNT_IN_BEATS
    /\ onBeatRef = Null
    /\ capturedTaps = <<>>
    /\ progressLoaded = TRUE
    /\ pendingRuns = [c \in Calls |-> Null]
    /\ runClamped = Some(b)
    /\ clearsInRun = 2
    /\ registered = 0
    /\ lastTap = Null
    /\ summaryResults = Null

\* registerTap(hand) during the exercise, and the scoring effect of the
\* render that follows (part_006:27-41, usePractice.ts:452-483).
LiveTap(hand) ==
    /\ phase = "exercising"
    /\ Len(capturedTaps) < MaxLiveTaps
    /\ registered' = registered + 1
    /\ lastTap' = Some([clock |-> now, hand |-> hand])
    /\ capturedTaps' = IF now <= 0 THEN capturedTaps
                       ELSE AppendTap(capturedTaps, [time |-> now, hand |-> hand])
    /\ LiveScored(capturedTaps')
    /\ UNCHANGED <<hookBpm, hookRunning, bpmInput, phase, countInBeatsSeen,
                   onBeatRef, progressLoaded, pendingRuns, runClamped, clearsInRun,
                   summaryResults>>
    /\ UNCHANGED <<metVars, noteVars>>

\* ctx.currentTime advances by one tick, up to the end of the window in
\* which a tap is assigned to the cycle.
LiveClock ==
    /\ phase = "exercising"
    /\ now < cycleEnd + ASSIGNMENT_WINDOW_MS + LiveTick
    /\ now' = now + LiveTick
    /\ UNCHANGED <<web, ctxState, nextBeatTime, beatIndex, bpm, soundId, onBeat,
                   schedulerIntervalId, visualLoopId, lastReportedBeat, isRunning,
                   firstBeatTime, bufferCache, intervals, rafs, loading, calls,
                   clicks, skipped, commands, runId>>
    /\ UNCHANGED <<scoreVars, noteVars, pracVars>>

----------------------------------------------------------------------------
(* Scorer as a state machine: inputs drawn in Init, then the two calls.    *)

ScoreIdle ==
    /\ tapTimes = <<>>
    /\ expectedTimes = <<>>
    /\ thresholds = DEFAULT_THRESHOLDS
    /\ results = <<>>
    /\ matching = <<>>
    /\ counts = [perfect |-> 0, good |-> 0, miss |-> 0]
    /\ scorePc = "input"

InitScore ==
    /\ tapTimes \in SeqsUpTo(TapDomain, MaxTaps)
    /\ expectedTimes \in SeqsUpTo(ExpectedDomain, MaxExpected)
    /\ thresholds \in ThresholdDomain
    /\ results = <<>>
    /\ matching = <<>>
    /\ counts = [perfect |-> 0, good |-> 0, miss |-> 0]
    /\ scorePc = "input"
    /\ MetronomeLoaded(TRUE)
    /\ NotesIdle
    /\ PracticeIdle

ScoreSessionCall ==
    /\ scorePc = "input"
    /\ results' = scoreSession(tapTimes, expectedTimes, thresholds)
    /\ matching' = ExpectedToTap(tapTimes, expectedTimes)
    /\ scorePc' = "scored"
    /\ UNCHANGED <<tapTimes, expectedTimes, thresholds, counts>>
    /\ UNCHANGED notScoreVars

CountByAccuracyCall ==
    /\ scorePc = "scored"
    /\ counts' = countByAccuracy(results)
    /\ scorePc' = "counted"
    /\ UNCHANGED <<tapTimes, expectedTimes, thresholds, results, matching>>
    /\ UNCHANGED notScoreVars

NextScore == ScoreSessionCall \/ CountByAccuracyCall

SpecScore == InitScore /\ [][NextScore]_vars

(* The Note Scheduler as a state machine: inputs drawn in Init, then one   *)
(* of the functions that return times, and getCycleDurationSeconds.        *)

InitNotes ==
    /\ t0 \in StartTimes
    /\ noteBpm \in NoteBpms
    /\ subdivision \in Subdivisions
    /\ pattern \in SeqsUpTo(Cells, MaxPattern)
    /\ cycleCount \in 0..MaxCycles
    /\ noteCall = "none"
    /\ times = <<>>
    /\ cycleDuration = Null
    /\ ScoreIdle
    /\ MetronomeLoaded(TRUE)
    /\ PracticeIdle

GetExpectedHitTimesCall ==
    /\ noteCall = "none"
    /\ times' = getExpectedHitTimes(t0, noteBpm, subdivision, Len(pattern))
    /\ noteCall' = "getExpectedHitTimes"
    /\ UNCHANGED <<t0, noteBpm, subdivision, pattern, cycleCount, cycleDuration>>
    /\ UNCHANGED notNoteVars

FromPatternCall ==
    /\ noteCall = "none"
    /\ times' = getExpectedHitTimesFromPattern(t0, noteBpm, subdivision, pattern)
    /\ noteCall' = "getExpectedHitTimesFromPattern"
    /\ UNCHANGED <<t0, noteBpm, subdivision, pattern, cycleCount, cycleDuration>>
    /\ UNCHANGED notNoteVars

ForRudimentCall ==
    /\ noteCall = "none"
    /\ times' = getExpectedHitTimesForRudiment(t0, noteBpm, subdivision, pattern)
    /\ noteCall' = "getExpectedHitTimesForRudiment"
    /\ UNCHANGED <<t0, noteBpm, subdivision, pattern, cycleCount, cycleDuration>>
    /\ UNCHANGED notNoteVars

ForRudimentCyclesCall ==
    /\ noteCall = "none"
    /\ times' = getExpectedHitTimesForRudimentCycles(t0, noteBpm, subdivision,
                                                     pattern, cycleCount)
    /\ noteCall' = "getExpectedHitTimesForRudimentCycles"
    /\ UNCHANGED <<t0, noteBpm, subdivision, pattern, cycleCount, cycleDuration>>
    /\ UNCHANGED notNoteVars

GetCycleDurationCall ==
    /\ cycleDuration = Null
    /\ cycleDuration' = Some(getCycleDurationSeconds(noteBpm, subdivision, Len(pattern)))
    /\ UNCHANGED <<t0, noteBpm, subdivision, pattern, cycleCount, noteCall, times>>
    /\ UNCHANGED notNoteVars

NextNotes ==
    \/ GetExpectedHitTimesCall
    \/ FromPatternCall
    \/ ForRudimentCall
    \/ ForRudimentCyclesCall
    \/ GetCycleDurationCall

SpecNotes == InitNotes /\ [][NextNotes]_vars

(* The Beat Scheduler as a state machine: the module as loaded, in either  *)
(* environment, then any interleaving of calls, timers and clock advances. *)

Init ==
    /\ ScoreIdle
    /\ NotesIdle
    /\ PracticeIdle
    /\ \E w \in BOOLEAN : MetronomeLoaded(w)

Spec == Init /\ [][Next]_vars

(* The practice session as a state machine: the hooks as mounted, in either *)
(* environment, then any interleaving of the user's actions, the settling   *)
(* of the awaited promises, timers and clock advances.                      *)

InitPractice ==
    /\ ScoreIdle
    /\ NotesIdle
    /\ \E w \in BOOLEAN : MetronomeLoaded(w)
    /\ \E ib \in InitialBpms : PracticeMounted(ib)

NextPractice ==
    \/ \E p \in StoredProgress : ProgressLoaded(p)
    \/ \E text \in TypedTexts : handleBpmChange(text)
    \/ handleStartStop
    \/ handleStopForSummary
    \/ dismissSummary
    \/ \E c \in Calls : PracticeResumeDone(c)
    \/ \E c \in Calls : \E ok \in BOOLEAN : PracticeLoadDone(c, ok)
    \/ \E hand \in Hands : registerTap(hand)
    \/ \E r \in rafs : PracticeFrame(r)
    \/ \E i \in intervals : IntervalFire(i)
    \/ \E d \in AdvanceSteps : Advance(d)

SpecPractice == InitPractice /\ [][NextPractice]_vars

(* Live scoring as a state machine: a run in its exercise phase, the clock, *)
(* the taps, and the stop for the summary.                                  *)

InitLive ==
    \E b \in LiveBpms : \E sub \in LiveSubdivisions : \E pat \in LivePatterns :
        LET start == COUNT_IN_BEATS * (60000 \div b)
        IN /\ t0 = start
           /\ noteBpm = b
           /\ subdivision = sub
           /\ pattern = pat
           /\ cycleCount = 0
           /\ noteCall = "none"
           /\ times = <<>>
           /\ cycleDuration = Some(getCycleDurationSeconds(b, sub, Len(pat)))
           /\ LiveMetronome(b, start - ASSIGNMENT_WINDOW_MS - missWindowMs(b))
           /\ LivePractice(b)
           /\ tapTimes = <<>>
           /\ expectedTimes = getExpectedHitTimesForRudiment(start, b, sub, pat)
           /\ thresholds = getThresholdsForBpm(b)
           /\ results = scoreSession(<<>>, expectedTimes, thresholds)
           /\ matching = <<>>
           /\ counts = [perfect |-> 0, good |-> 0, miss |-> 0]
           /\ scorePc = "scored"

NextLive ==
    \/ \E hand \in LiveHands : LiveTap(hand)
    \/ LiveClock
    \/ handleStopForSummary

SpecLive == InitLive /\ [][NextLive]_vars

----------------------------------------------------------------------------
(* Claims about the Scorer (checked under SpecScore)                       *)

Scored == scorePc # "input"

Min(a, b) == IF a < b THEN a ELSE b

Dist(t, e) == Abs(tapTimes[t] - expectedTimes[e])

TappedResults == {i \in 1..Len(results) : results[i].tapTime # Null}

\* C1: scoreSession returns exactly one HitResult per expected time, in
\* expected-time order: the result has length |expectedTimes|, result[i].index
\* = i and result[i].expectedTime = expectedTimes[i], whatever the taps.
C1_OneResultPerExpected ==
    Scored =>
        /\ Len(results) = Len(expectedTimes)
        /\ \A i \in 1..Len(expectedTimes) :
              /\ results[i].index = i - 1
              /\ results[i].expectedTime = expectedTimes[i]

\* Witness of C1: a scored session with more taps than expected notes and one
\* with fewer, here the former: two taps, one expected note, one result.
C1_Witness ==
    /\ scorePc = "scored"
    /\ Len(tapTimes) = 2
    /\ Len(expectedTimes) = 1
    /\ Len(results) = 1

\* C2: no HitResult carries a tapTime farther than 150 ms from its
\* expectedTime, and an expected note whose every tap is farther than 150 ms
\* away scores Miss with tapTime = null even though taps exist.
C2_AssignmentWindow ==
    Scored =>
        /\ \A i \in 1..Len(results) :
              results[i].tapTime # Null =>
                  Abs(results[i].tapTime[1] - results[i].expectedTime) <= 150
        /\ \A i \in 1..Len(results) :
              (\A t \in 1..Len(tapTimes) : Dist(t, i) > 150) =>
                  /\ results[i].accuracy = "miss"
                  /\ results[i].tapTime = Null

\* Witness of C2: a tap 200 ms from the only expected note, which is Miss.
C2_Witness ==
    /\ scorePc = "scored"
    /\ tapTimes = <<200>>
    /\ expectedTimes = <<0>>
    /\ results[1].accuracy = "miss"
    /\ results[1].tapTime = Null

\* C3: the matching is one-to-one: a tap index is assigned to at most one
\* expected index (and an expected index holds one tap index), so the
\* number of results with a tap never exceeds min(|tapTimes|, |expectedTimes|).
C3_OneToOne ==
    Scored =>
        /\ \A e1, e2 \in DOMAIN matching :
              e1 # e2 => matching[e1] # matching[e2]
        /\ \A e \in DOMAIN matching :
              /\ e \in 0..(Len(expectedTimes) - 1)
              /\ matching[e] \in 0..(Len(tapTimes) - 1)
        /\ TappedResults = {e + 1 : e \in DOMAIN matching}
        /\ Cardinality(TappedResults) <= Min(Len(tapTimes), Len(expectedTimes))

\* Witness of C3: one tap within the window of two expected notes is given to
\* one of them only, and two taps compete for one expected note.
C3_Witness ==
    /\ scorePc = "scored"
    /\ \E t \in 1..Len(tapTimes) : \E e1, e2 \in 1..Len(expectedTimes) :
          /\ e1 # e2
          /\ Dist(t, e1) <= 150
          /\ Dist(t, e2) <= 150
          /\ results[e1].tapTime # Null
          /\ results[e2].tapTime = Null
    /\ \E t1, t2 \in 1..Len(tapTimes) : \E e \in 1..Len(expectedTimes) :
          /\ t1 # t2
          /\ Dist(t1, e) <= 150
          /\ Dist(t2, e) <= 150
          /\ (t2 - 1) \notin {matching[x] : x \in DOMAIN matching}

\* C4: with a tap assigned, offsetMs = tapTime - expectedTime (in ms, negative
\* = early) and accuracy is Perfect when |offsetMs| <= perfectThresholdMs, Good
\* when |offsetMs| <= goodThresholdMs, otherwise Miss; with no tap assigned,
\* accuracy is Miss and tapTime = offsetMs = null.  Expected [0,1,2] s, taps
\* [0.04, 2.06] s, thresholds 50/100 gives Perfect(+40), Miss(null), Good(+60).
C4_OffsetAndAccuracy ==
    Scored =>
        /\ \A i \in 1..Len(results) :
              LET r == results[i] IN
              IF r.tapTime # Null
              THEN /\ \E t \in 1..Len(tapTimes) : r.tapTime = <<tapTimes[t]>>
                   /\ r.offsetMs = <<r.tapTime[1] - expectedTimes[i]>>
                   /\ Abs(r.offsetMs[1]) <= thresholds.perfectThresholdMs
                        => r.accuracy = "perfect"
                   /\ (/\ Abs(r.offsetMs[1]) > thresholds.perfectThresholdMs
                       /\ Abs(r.offsetMs[1]) <= thresholds.goodThresholdMs)
                        => r.accuracy = "good"
                   /\ (/\ Abs(r.offsetMs[1]) > thresholds.perfectThresholdMs
                       /\ Abs(r.offsetMs[1]) > thresholds.goodThresholdMs)
                        => r.accuracy = "miss"
              ELSE /\ r.accuracy = "miss"
                   /\ r.offsetMs = Null
        /\ (/\ expectedTimes = <<0, 1000, 2000>>
            /\ tapTimes = <<40, 2060>>
            /\ thresholds = [perfectThresholdMs |-> 50, goodThresholdMs |-> 100])
           => results =
                << [index |-> 0, expectedTime |-> 0, tapTime |-> <<40>>,
                    offsetMs |-> <<40>>, accuracy |-> "perfect"],
                   [index |-> 1, expectedTime |-> 1000, tapTime |-> <<>>,
                    offsetMs |-> <<>>, accuracy |-> "miss"],
                   [index |-> 2, expectedTime |-> 2000, tapTime |-> <<2060>>,
                    offsetMs |-> <<60>>, accuracy |-> "good"] >>

\* Witness of C4: the worked example has been scored, and an early tap
\* (negative offset) has been classified.
C4_Witness ==
    /\ scorePc = "scored"
    /\ expectedTimes = <<0, 1000, 2000>>
    /\ tapTimes = <<40, 2060>>
    /\ thresholds = [perfectThresholdMs |-> 50, goodThresholdMs |-> 100]
    /\ results[3].accuracy = "good"

\* Second case of C4 reached as well: an early tap, classified by |offset|.
C4_WitnessEarly ==
    /\ scorePc = "scored"
    /\ \E i \in 1..Len(results) :
          /\ results[i].tapTime # Null
          /\ results[i].offsetMs[1] < -100
          /\ results[i].accuracy = "miss"

\* C5: among all (tap, expected) pairs within the window, the pair with the
\* strictly smallest distance is always matched together; a single tap is
\* assigned to an expected time nearest to it (when one is within the window)
\* and every other expected time scores Miss with no tap (expected {0, 0.05},
\* tap 0.04: the tap goes to 0.05, and 0 is Miss).
C5_ClosestFirst ==
    Scored =>
        /\ \A t \in 1..Len(tapTimes) : \A e \in 1..Len(expectedTimes) :
              (/\ Dist(t, e) <= 150
               /\ \A t2 \in 1..Len(tapTimes) : \A e2 \in 1..Len(expectedTimes) :
                     (<<t2, e2>> # <<t, e>> /\ Dist(t2, e2) <= 150)
                        => Dist(t, e) < Dist(t2, e2))
              => /\ (e - 1) \in DOMAIN matching
                 /\ matching[e - 1] = t - 1
                 /\ results[e].tapTime = <<tapTimes[t]>>
        /\ Len(tapTimes) = 1 =>
              /\ (\E e \in 1..Len(expectedTimes) : Dist(1, e) <= 150)
                    => Cardinality(TappedResults) = 1
              /\ \A e \in TappedResults :
                    /\ \A e2 \in 1..Len(expectedTimes) : Dist(1, e) <= Dist(1, e2)
                    /\ \A e2 \in 1..Len(expectedTimes) :
                          e2 # e => /\ results[e2].accuracy = "miss"
                                    /\ results[e2].tapTime = Null
        /\ (expectedTimes = <<0, 50>> /\ tapTimes = <<40>>)
              => /\ results[2].tapTime = <<40>>
                 /\ results[1].tapTime = Null
                 /\ results[1].accuracy = "miss"

\* Witness of C5: the worked example, where loop order would have given the
\* tap to the farther note.
C5_Witness ==
    /\ scorePc = "scored"
    /\ expectedTimes = <<0, 50>>
    /\ tapTimes = <<40>>
    /\ results[2].tapTime = <<40>>

\* C6 (as claimed): for every result with a tap, no other expected time is
\* strictly closer to that tap than the expected time it was assigned to.
C6_TapGoesToItsClosestExpected ==
    Scored =>
        \A i \in 1..Len(results) :
            results[i].tapTime # Null =>
                \A j \in 1..Len(expectedTimes) :
                    ~ (Abs(results[i].tapTime[1] - expectedTimes[j])
                         < Abs(results[i].tapTime[1] - expectedTimes[i]))

\* C7: countByAccuracy returns counts with perfect + good + miss =
\* length(results), each count the number of results of that accuracy.
C7_CountsPartition ==
    scorePc = "counted" =>
        /\ counts.perfect + counts.good + counts.miss = Len(results)
        /\ \A a \in {"perfect", "good", "miss"} :
              counts[a] = Cardinality({i \in 1..Len(results) : results[i].accuracy = a})

\* Witness of C7: counts taken over results holding all three accuracies,
\* one of them a Miss without a tap.
C7_Witness ==
    /\ scorePc = "counted"
    /\ counts = [perfect |-> 1, good |-> 1, miss |-> 1]
    /\ \E i \in 1..Len(results) : results[i].tapTime = Null

\* The 0-based tap indices that were given to an expected note.
AssignedTaps == {matching[e] : e \in DOMAIN matching}

\* C25: the matching of scoreSession is maximal: no tap without a note and
\* expected note without a tap lie within the 150 ms assignment window of
\* each other.
C25_MatchingIsMaximal ==
    Scored =>
        \A t \in 1..Len(tapTimes) : \A e \in 1..Len(expectedTimes) :
            Dist(t, e) <= ASSIGNMENT_WINDOW_MS =>
                (t - 1) \in AssignedTaps \/ (e - 1) \in DOMAIN matching

\* Witness of C25: a tap and a note are both left over, out of each other's
\* window, although each was in the window of something that was assigned.
C25_Witness ==
    /\ scorePc = "scored"
    /\ \E t \in 1..Len(tapTimes) : \E e \in 1..Len(expectedTimes) :
          /\ (t - 1) \notin AssignedTaps
          /\ (e - 1) \notin DOMAIN matching
          /\ Dist(t, e) > ASSIGNMENT_WINDOW_MS
          /\ \E e2 \in 1..Len(expectedTimes) : Dist(t, e2) <= ASSIGNMENT_WINDOW_MS
          /\ \E t2 \in 1..Len(tapTimes) : Dist(t2, e) <= ASSIGNMENT_WINDOW_MS

\* The pairs of 0-based expected indices i < j, the first strictly earlier
\* than the second, that both hold a tap.
AssignedNotePairs ==
    {ij \in (DOMAIN matching) \X (DOMAIN matching) :
        ij[1] < ij[2] /\ expectedTimes[ij[1] + 1] < expectedTimes[ij[2] + 1]}

TapOf(e) == tapTimes[matching[e] + 1]

----------------------------------------------------------------------------
(* Claims about the Note Scheduler (checked under SpecNotes)               *)

\* The grid step of the inputs (ms), and the 0-based indices of the cells
\* of `pattern` that are 'L' or 'R'.
GridStep == 60000 \div (noteBpm * NOTES_PER_BEAT[subdivision])

NoteIndices == {i \in 0..(Len(pattern) - 1) : pattern[i + 1] \in {"L", "R"}}

\* C13: getExpectedHitTimesFromPattern returns startTime + i*step for exactly
\* the indices i whose cell is 'L' or 'R', in index order: the k-th time
\* belongs to the k-th such index, so a rest adds no entry and does not shift
\* the cells after it.
C13_RestsKeepTheGrid ==
    noteCall = "getExpectedHitTimesFromPattern" =>
        /\ Len(times) = Cardinality(NoteIndices)
        /\ \A k \in 1..Len(times) :
              \E i \in NoteIndices :
                  /\ Cardinality({j \in NoteIndices : j < i}) = k - 1
                  /\ times[k] = t0 + i * GridStep

\* Witness of C13: the pattern [L, rest, R] gives [t0, t0 + 2*step].
C13_Witness ==
    /\ noteCall = "getExpectedHitTimesFromPattern"
    /\ pattern = <<"L", "", "R">>
    /\ times = <<t0, t0 + 2 * GridStep>>

\* C14 (as claimed): for every pattern the number of times returned by
\* getExpectedHitTimesForRudimentCycles is (number of 'L'/'R' cells) x
\* cycleCount, and by getExpectedHitTimesForRudiment the number of 'L'/'R'
\* cells, every other cell value counting as a rest.
C14_CountAnyPattern ==
    /\ noteCall = "getExpectedHitTimesForRudimentCycles" =>
          Len(times) = Cardinality(NoteIndices) * cycleCount
    /\ noteCall = "getExpectedHitTimesForRudiment" =>
          Len(times) = Cardinality(NoteIndices)

\* Course rudiments: the loader reads PATTERN_LENGTH cells of the stored
\* pattern, a missing cell being undefined, and maps every cell that is not
\* 'L' or 'R' to "".
PATTERN_LENGTH == 32

normalizeCell(c) == IF c = "L" \/ c = "R" THEN c ELSE ""

RECURSIVE CoursePatternLoop(_, _, _)
CoursePatternLoop(raw, i, acc) ==
    IF i >= PATTERN_LENGTH THEN acc
    ELSE CoursePatternLoop(raw, i + 1,
            Append(acc, normalizeCell(IF i + 1 <= Len(raw) THEN raw[i + 1] ELSE "undefined")))

CoursePattern(raw) == CoursePatternLoop(raw, 0, <<>>)

\* The cells the curriculum loader lets through ('L', 'R', ""), and null.
KnownCells == {"L", "R", "", "null"}

\* C14 (amended): the count is (number of 'L'/'R' cells) x cycleCount for
\* every pattern whose cells are 'L', 'R', "" or null, for every pattern
\* that holds at least one "" or null cell, and for every stored pattern once
\* the course loader has normalised it.
C14_CountKnownCells ==
    /\ ((\A i \in 1..Len(pattern) : pattern[i] \in KnownCells) \/ hasRests(pattern)) =>
          C14_CountAnyPattern
    /\ noteCall = "getExpectedHitTimesForRudimentCycles" =>
          Len(getExpectedHitTimesForRudimentCycles(t0, noteBpm, subdivision,
                  CoursePattern(pattern), cycleCount))
             = Cardinality(NoteIndices) * cycleCount

\* Witness of C14: two cycles of a pattern with a rest and a null cell.
C14_Witness ==
    /\ noteCall = "getExpectedHitTimesForRudimentCycles"
    /\ pattern = <<"L", "null", "R">>
    /\ cycleCount = 2
    /\ Len(times) = 4

\* C15: cycleDuration(bpm, sub, n) = last(expectedTimes(t0, bpm, sub, n)) - t0
\* + step for n >= 1, with expectedTimes[i] = t0 + i*step.
C15_CycleDurationRoundTrip ==
    (noteCall = "getExpectedHitTimes" /\ cycleDuration # Null /\ Len(pattern) >= 1) =>
        /\ Len(times) = Len(pattern)
        /\ \A i \in 1..Len(times) : times[i] = t0 + (i - 1) * GridStep
        /\ cycleDuration[1] = times[Len(times)] - t0 + GridStep

\* Witness of C15: both functions called for three eighth-triplet notes.
C15_Witness ==
    /\ noteCall = "getExpectedHitTimes"
    /\ cycleDuration # Null
    /\ Len(pattern) = 3
    /\ subdivision = "eighthTriplet"
    /\ t0 > 0

\* The notes of one cycle, as getExpectedHitTimesForRudiment returns them.
CycleZero == getExpectedHitTimesForRudiment(t0, noteBpm, subdivision, pattern)

\* C16: the arrays returned by the Note Scheduler are strictly increasing,
\* and in getExpectedHitTimesForRudimentCycles note k of cycle c is note k of
\* cycle 0 shifted by c cycle durations, the last note of a cycle being
\* earlier than the first of the next.
C16_OutputsSorted ==
    /\ noteCall # "none" =>
          \A i \in 1..Len(times) : \A j \in (i + 1)..Len(times) : times[i] < times[j]
    /\ noteCall = "getExpectedHitTimesForRudimentCycles" =>
          /\ Len(times) = cycleCount * Len(CycleZero)
          /\ \A c \in 0..(cycleCount - 1) :
                \A k \in 1..Len(CycleZero) :
                    times[c * Len(CycleZero) + k]
                       = CycleZero[k] + c * Len(pattern) * GridStep

\* Witness of C16: two cycles of two notes each, around a rest.
C16_Witness ==
    /\ noteCall = "getExpectedHitTimesForRudimentCycles"
    /\ cycleCount = 2
    /\ pattern = <<"R", "", "L">>
    /\ Len(times) = 4
    /\ times[2] < times[3]

----------------------------------------------------------------------------
(* Claims about the Beat Scheduler (checked under Spec)                    *)

\* C8 (as claimed): after any stopMetronome() step, whatever starts and stops
\* came before, no refill interval and no animation-frame callback of the
\* module is armed and the scheduler is Idle (not running, no callback, no
\* timer id held).
C8_StopHaltsBothLoops ==
    [][stopMetronome =>
          /\ intervals' = {}
          /\ rafs' = {}
          /\ ~isRunning'
          /\ onBeat' = Null
          /\ schedulerIntervalId' = Null
          /\ visualLoopId' = Null]_vars

\* A startMetronome invocation c leaves its current position in this step.
StartStep(c) == calls'[c] # calls[c]

\* C9: a startMetronome invocation returns true only where the audio clock is
\* usable (web environment, context running, buffers of the requested sound
\* cached); it returns false as soon as the context is found not running or
\* the buffers are missing; and every step of an invocation other than the
\* one that returns true emits no click, arms no timer and leaves isRunning,
\* bpm, nextBeatTime, beatIndex (and onBeat, the timer ids) unchanged.
C9_FailedStartChangesNothing ==
    [][\A c \in Calls :
          StartStep(c) =>
             /\ calls'[c].pc = "true" =>
                   /\ web
                   /\ ctxState' = "running"
                   /\ calls[c].loadId \in bufferCache'
             /\ ~web => calls'[c].pc = "false"
             /\ (calls[c].pc = "awaitResume" /\ ctxState' # "running") =>
                   calls'[c].pc = "false"
             /\ (calls[c].pc = "awaitLoad" /\ calls[c].loadId \notin bufferCache') =>
                   calls'[c].pc = "false"
             /\ calls'[c].pc # "true" =>
                   UNCHANGED <<isRunning, bpm, nextBeatTime, beatIndex, clicks,
                               intervals, rafs, schedulerIntervalId, visualLoopId,
                               onBeat, firstBeatTime>>]_vars

\* Witness of C9: with the metronome running after a first start, a second
\* startMetronome has returned false (its buffers failed to load) and the
\* metronome still runs with its clicks and timers.
C9_Witness ==
    /\ web
    /\ calls[1].pc = "true"
    /\ calls[2].pc = "false"
    /\ isRunning
    /\ clicks # <<>>
    /\ intervals # {}

\* The clicks a step hands to the audio engine.
NewClicks == {clicks'[k] : k \in (Len(clicks) + 1)..Len(clicks')}

\* C10: the beats skipped by the catch-up loop are never emitted, in the pass
\* that skips them or later; no click is scheduled earlier than
\* now - beatDuration/2; and a pass that skipped beats advances beatIndex by
\* one per skipped or emitted beat and stops at the first beat time at or
\* beyond the end of the lookahead window.
C10_CatchUpSkipsSilently ==
    [][/\ \A k \in 1..Len(clicks) : clicks'[k] = clicks[k]
       /\ \A cl \in NewClicks :
             /\ 2 * cl.when >= 2 * now' - BeatDurationMs(bpm')
             /\ cl.when < now' + LOOKAHEAD_MS
       /\ \A sk \in skipped' :
             \A k \in 1..Len(clicks') :
                 clicks'[k].run = sk.run =>
                    /\ clicks'[k].beat # sk.beat
                    /\ clicks'[k].when # sk.when
       /\ skipped' # skipped =>
             /\ skipped \subseteq skipped'
             /\ \A sk \in skipped' \ skipped :
                   /\ 2 * sk.when < 2 * now' - BeatDurationMs(bpm')
                   /\ \A cl \in NewClicks : cl.beat > sk.beat /\ cl.when > sk.when
             /\ nextBeatTime' >= now' + LOOKAHEAD_MS
             /\ nextBeatTime' - BeatDurationMs(bpm') < now' + LOOKAHEAD_MS
             /\ beatIndex' = beatIndex + Cardinality(skipped' \ skipped)
                                       + Cardinality(NewClicks)]_vars

\* Witness of C10: a run in which beats were skipped and a later beat of the
\* same run was then emitted.
C10_Witness ==
    \E sk \in skipped :
        \E k \in 1..Len(clicks) :
            /\ clicks[k].run = sk.run
            /\ clicks[k].beat > sk.beat
            /\ clicks[k].when > sk.when

\* onBeat(v) is invoked in this step: visualLoop assigns lastReportedBeat and
\* calls onBeat with the same value, and nothing else assigns it a value
\* other than -1.
OnBeatInvoked(v) ==
    /\ lastReportedBeat' # lastReportedBeat
    /\ lastReportedBeat' # -1
    /\ lastReportedBeat' = v

\* C11 (as claimed): the scheduling pass invokes onBeat for every beat it
\* emits, with that beat's 0-based index.
C11_OnBeatPerEmittedBeat ==
    [][\A cl \in NewClicks : OnBeatInvoked(cl.beat)]_vars

\* C19: within one run (the clicks emitted between one successful start and
\* the next), whatever passes, tempo changes and clock advances interleave,
\* the clicks handed to the audio engine have strictly increasing timestamps
\* and strictly increasing beat indices: no beat is scheduled twice.
C19_ClicksStrictlyIncreasing ==
    \A i \in 1..Len(clicks) :
        \A j \in (i + 1)..Len(clicks) :
            clicks[i].run = clicks[j].run =>
                /\ clicks[i].when < clicks[j].when
                /\ clicks[i].beat < clicks[j].beat

\* Witness of C19: a run with three clicks whose spacing changed, that is,
\* emitted over several passes with setMetronomeBpm in between.
C19_Witness ==
    \E i \in 1..Len(clicks) :
        /\ i + 2 <= Len(clicks)
        /\ clicks[i].run = clicks[i + 1].run
        /\ clicks[i].run = clicks[i + 2].run
        /\ clicks[i + 1].when - clicks[i].when
              # clicks[i + 2].when - clicks[i + 1].when
        /\ commands > 0

\* The value of nextBeatTime after a refill-timer pass run in this state.
NextBeatTimeAfterPass ==
    scheduleBeats(isRunning, bpm, soundId \in bufferCache, now, runId, SchedState).nbt

\* C20 (as claimed): while the scheduler is Running with its refill timer
\* armed, a refill pass run in any reachable state ends with
\* nextBeatTime >= now + LOOKAHEAD_SEC, also after setMetronomeSound or
\* setMetronomeBpm was called during the run.
C20_LookaheadNeverDry ==
    (isRunning /\ intervals # {}) => NextBeatTimeAfterPass >= now + LOOKAHEAD_MS

----------------------------------------------------------------------------
(* Claims about the practice session (checked under SpecPractice)          *)

\* C12: every BPM value is clamped before use: the bpm the scheduler computes
\* beatDuration from lies in [20, 300], and the bpm a practice run uses (the
\* tempo of its expected times and the tempo its metronome was started with)
\* lies in [40, 240].
C12_BpmAlwaysClamped ==
    /\ bpm \in MIN_METRONOME_BPM..MAX_METRONOME_BPM
    /\ \A c \in Calls :
          pendingRuns[c] # Null =>
             /\ pendingRuns[c][1] \in PRACTICE_MIN_BPM..PRACTICE_MAX_BPM
             /\ calls[c].bpmArg \in PRACTICE_MIN_BPM..PRACTICE_MAX_BPM
    /\ phase = "exercising" =>
          /\ runClamped[1] \in PRACTICE_MIN_BPM..PRACTICE_MAX_BPM
          /\ hookRunning => bpm \in PRACTICE_MIN_BPM..PRACTICE_MAX_BPM

\* C17: a registerTap(hand) call reads the clock once; when the value is <= 0
\* the tap sequence is unchanged, otherwise exactly one entry {time, hand} is
\* appended at the end and the earlier entries stay as they were, also when
\* an entry with the same time is already there.
C17_RegisterTapAppendsOne ==
    [][registered' # registered =>
          LET call == lastTap'[1]
          IN /\ call.clock = (IF web THEN now ELSE 0)
             /\ IF call.clock <= 0
                THEN capturedTaps' = capturedTaps
                ELSE /\ Len(capturedTaps') = Len(capturedTaps) + 1
                     /\ capturedTaps'[Len(capturedTaps')]
                           = [time |-> call.clock, hand |-> call.hand]
                     /\ \A i \in 1..Len(capturedTaps) :
                           capturedTaps'[i] = capturedTaps[i]]_vars

\* Witness of C17: two registerTap calls at one clock time left two entries.
C17_Witness ==
    /\ registered = 2
    /\ Len(capturedTaps) = 2
    /\ capturedTaps[1].time = capturedTaps[2].time
    /\ capturedTaps[1].hand = capturedTaps[2].hand
    /\ lastTap # Null
    /\ lastTap[1].clock > 0

\* C18: for each run started through handleStartStop, clearTaps() is called
\* exactly once, when the run starts; after that call the tap buffer of the
\* run is only appended to.
C18_OneClearPerRun ==
    (runClamped # Null \/ \E c \in Calls : pendingRuns[c] # Null) => clearsInRun = 1

\* The next beat lies on the grid of the current run.
OnGrid == nextBeatTime = firstBeatTime + beatIndex * BeatDurationMs(bpm)

\* C21: a successful start puts the scheduler on the grid firstBeatTime +
\* k * (60/bpm), and every step that leaves bpm as it is keeps it there:
\* nextBeatTime = firstBeatTime + beatIndex * (60/bpm), and every beat k the
\* step emits is stamped firstBeatTime + k * (60/bpm), also after a catch-up
\* skip and whenever the refill timer fires.
C21_DriftFreeGrid ==
    [][((runId' # runId) \/ (bpm' = bpm /\ OnGrid)) =>
          /\ OnGrid'
          /\ \A cl \in NewClicks :
                cl.when = firstBeatTime' + cl.beat * BeatDurationMs(bpm')]_vars

\* Witness of C21: a run at its starting tempo in which a beat was skipped
\* and a later beat was emitted on the grid.
C21_Witness ==
    /\ isRunning
    /\ commands = 0
    /\ OnGrid
    /\ \E sk \in skipped :
          \E k \in 1..Len(clicks) :
              /\ sk.run = runId
              /\ clicks[k].run = runId
              /\ clicks[k].beat > sk.beat
              /\ clicks[k].when = firstBeatTime + clicks[k].beat * BeatDurationMs(bpm)

\* C22: every startMetronome invocation that returns true begins a new run at
\* the clock value it reads: firstBeatTime is that value, and its immediate
\* scheduling pass emits beat 0 of the new run at exactly that time, accented;
\* for the first start and for every later one.
C22_StartEmitsBeatZero ==
    [][\A c \in Calls :
          (StartStep(c) /\ calls'[c].pc = "true") =>
             /\ firstBeatTime' = now
             /\ runId' = runId + 1
             /\ \E cl \in NewClicks :
                   /\ cl.run = runId'
                   /\ cl.beat = 0
                   /\ cl.when = now
                   /\ cl.accent]_vars

\* C23: a step of the per-frame visual callback (visualLoop, with the beat
\* callback it invokes, which may call clearTaps) and a step of registerTap
\* leave the scheduling state bpm, isRunning, nextBeatTime and beatIndex
\* unchanged.
C23_VisualAndTapsKeepSchedule ==
    [][((\E r \in rafs : PracticeFrame(r)) \/ (\E hand \in Hands : registerTap(hand))) =>
          UNCHANGED <<bpm, isRunning, nextBeatTime, beatIndex>>]_vars

\* Witness of C23: while the metronome runs with beats scheduled, a tap was
\* registered and the frames reported the whole count-in, so that the beat
\* callback cleared the taps.
C23_Witness ==
    /\ isRunning
    /\ beatIndex >= COUNT_IN_BEATS
    /\ registered >= 1
    /\ clearsInRun >= 2
    /\ onBeatRef = Null

\* No startMetronome invocation is between its call and its return.
NoStartPending == \A c \in Calls : calls[c].pc \in {"unused", "true", "false"}

\* C30: while the metronome is stopped and no startMetronome invocation is
\* pending, no step schedules a click and no step invokes onBeat, also the
\* firing of a refill interval or an animation frame that an earlier start
\* left armed.
C30_SilentAfterStop ==
    [][(~isRunning /\ NoStartPending) =>
          /\ NewClicks = {}
          /\ clicks' = clicks
          /\ \A v \in 0..3 : ~OnBeatInvoked(v)]_vars

\* Witness of C30: after two starts and a stop, the interval left armed by
\* the first start is still armed, its animation frame has fired and ended,
\* and the clock has reached the next beat time without a new click.
C30_Witness ==
    /\ ~isRunning
    /\ NoStartPending
    /\ commands >= 1
    /\ intervals # {}
    /\ rafs = {}
    /\ clicks # <<>>
    /\ now >= nextBeatTime
    /\ \A k \in 1..Len(clicks) : clicks[k].when < nextBeatTime

\* C27 (as claimed): whenever the practice phase is "exercising" the beat
\* scheduler is running; a start that fails leaves the phase as it was.
C27_ExercisingImpliesRunning == phase = "exercising" => isRunning

\* C28 (as claimed): when a run started through handleStartStop begins, the
\* tempo the handler computed the exercise start, the cycle duration and the
\* expected times with is the tempo the beat scheduler runs at.
C28_RunTempoIsSchedulerTempo ==
    [][\A c \in Calls :
          (pendingRuns[c] # Null /\ pendingRuns'[c] = Null /\ isRunning') =>
             bpm' = runClamped'[1]]_vars

\* Note k (1-based) of the cycle has timed out: the clock is past its onset
\* by more than the miss window.
TimedOut(k) == now > expectedTimes[k] + missWindowMs(hookBpm)

\* C24: during the exercise at a fixed tempo, a note of the current cycle
\* that has timed out with the live result Miss keeps the result Miss after
\* every further tap (stamped with the clock, hence not earlier than now).
C24_MissIsFinal ==
    [][\A k \in 1..Len(results) :
          (phase = "exercising" /\ TimedOut(k) /\ results[k].accuracy = "miss") =>
             /\ Len(results') = Len(results)
             /\ results'[k].accuracy = "miss"]_vars

\* Witness of C24: a tap made after a note timed out lies within the
\* assignment window of the note and was assigned to it; the note is a Miss.
C24_Witness ==
    /\ phase = "exercising"
    /\ \E k \in 1..Len(results) :
          /\ TimedOut(k)
          /\ results[k].accuracy = "miss"
          /\ results[k].tapTime # Null
          /\ results[k].tapTime[1] > expectedTimes[k] + missWindowMs(hookBpm)
          /\ results[k].tapTime[1] - expectedTimes[k] <= ASSIGNMENT_WINDOW_MS

\* The expected times of the first two cycles of the run.
TwoCycles == getExpectedHitTimesForRudimentCycles(t0, hookBpm, subdivision, pattern, 2)

\* C29 (as claimed): the results finalized at stop-for-summary hold a Hit
\* Result for every expected note whose onset lies before the stop time,
\* however many taps were recorded.
C29_SummaryCoversRun ==
    (phase = "summary" /\ summaryResults # Null) =>
       \A k \in 1..Len(TwoCycles) :
          TwoCycles[k] < now =>
             \E r \in 1..Len(summaryResults[1]) :
                summaryResults[1][r].expectedTime = TwoCycles[k]

=============================================================================
